---- MODULE Spec2Model ----
(***************************************************************************)
(* Model of the product discovery and change-detection pipeline of the     *)
(* competitor monitor: the SQLite store (database.py), the markup          *)
(* orchestrator (scraper.py: scrape_brand) and the vision orchestrator     *)
(* (run_vision.py: process_brand).                                         *)
(*                                                                         *)
(* Text is modelled as a sequence of characters, so that lower-casing is   *)
(* computed character by character.  Dates are day numbers.  SQL NULL and  *)
(* Python None are the value Null; a key missing from a dict is Missing.   *)
(***************************************************************************)
EXTENDS Integers, Sequences, FiniteSets, TLC

VARIABLES
    products,     \* table products: a set of rows, UNIQUE(brand, name)
    scrape_log,   \* table scrape_log: the sequence of rows, in insertion order
    today,        \* the current day (datetime.now().date(), date('now'))
    ops,          \* how many operations have run
    screenshots,  \* brands that have a screenshot file in SCREENSHOT_DIR
    calls,        \* the reconcile calls in flight, one a process
    last          \* the operation that ran last, its inputs and its results

vars == <<products, scrape_log, today, ops, screenshots, calls, last>>

----------------------------------------------------------------------------
(* Bounds of the model. *)

MaxLog == 2        \* rows of scrape_log
MaxOps == 3        \* operations in one behaviour
MaxPieces == 3     \* pieces of text in one response of the vision model
MaxWords == 3      \* pieces of text in one name handed to the validator
MaxChars == 4      \* characters of one text handed to clean_text
MaxTail == 2       \* containers of a page after its containers without a name

----------------------------------------------------------------------------
(* Values. *)

Null == "NULL"
Missing == "MISSING"
NoText == <<>>
Text(tokens) == <<tokens>>

Ketchup == <<"K", "e", "t">>
ketchup == <<"k", "e", "t">>
Mustard == <<"M", "u", "s">>
Names == {Ketchup, ketchup, Mustard}
Blank == <<>>

\* The upper-case letters of the model's texts (str.isupper).
UpperChars == {"E", "H", "K", "M", "N", "O", "R", "T", "X"}

LowerChar(c) ==
    CASE c = "E" -> "e"
      [] c = "H" -> "h"
      [] c = "K" -> "k"
      [] c = "M" -> "m"
      [] c = "N" -> "n"
      [] c = "O" -> "o"
      [] c = "R" -> "r"
      [] c = "T" -> "t"
      [] c = "X" -> "x"
      [] OTHER -> c

\* str.lower() in Python, LOWER() in SQLite (they agree on ASCII text)
Lower(s) == [i \in DOMAIN s |-> LowerChar(s[i])]

BASELINE_DAYS == 30

\* The clock advances by a day, or past the baseline offset.
DaySteps == {1, BASELINE_DAYS + 1}

----------------------------------------------------------------------------
(* Configuration: three of the configured brands. *)

COMPETITORS ==
    [Paltsidis |-> [urls |-> <<"dips", "sauces">>, status |-> Missing],
     Condito   |-> [urls |-> <<"shop">>, status |-> Missing],
     Lecker    |-> [urls |-> <<>>, status |-> "maintenance"]]

Brands == DOMAIN COMPETITORS

\* COMPETITORS.items(): the brands in the order they are configured in.
BrandOrder == <<"Condito", "Lecker", "Paltsidis">>

\* The brands the store's lifecycle is followed for.
LifecycleBrands == {"Condito", "Lecker"}

ConfigStatus(config) == IF config.status = Missing THEN "no_url" ELSE config.status

----------------------------------------------------------------------------
(* database.py *)

Row(brand, name, url, image_url, category, first_seen, last_seen, is_new) ==
    [brand |-> brand, name |-> name, url |-> url, image_url |-> image_url,
     category |-> category, first_seen |-> first_seen, last_seen |-> last_seen,
     is_new |-> is_new]

\* COALESCE(?, column)
Coalesce(value, column) == IF value # Null THEN value ELSE column

\* add_product with a slip: the UPDATE sets is_new = 0 too.
add_product_clears_new(prods, brand, name, url, image_url, day) ==
    LET existing == {r \in prods : r.brand = brand /\ r.name = name}
    IN  IF existing # {}
        THEN LET e == CHOOSE r \in existing : TRUE
                 u == [e EXCEPT !.last_seen = day,
                                !.is_new = FALSE,
                                !.url = Coalesce(url, e.url),
                                !.image_url = Coalesce(image_url, e.image_url)]
             IN  [products |-> (prods \ {e}) \cup {u}, is_new |-> FALSE]
        ELSE [products |-> prods \cup
                  {Row(brand, name, url, image_url, Null, day, day, TRUE)},
              is_new |-> TRUE]

\* add_product with a slip: True is returned after the UPDATE too.
add_product_returns_true(prods, brand, name, url, image_url, day) ==
    LET existing == {r \in prods : r.brand = brand /\ r.name = name}
    IN  IF existing # {}
        THEN LET e == CHOOSE r \in existing : TRUE
                 u == [e EXCEPT !.last_seen = day,
                                !.url = Coalesce(url, e.url),
                                !.image_url = Coalesce(image_url, e.image_url)]
             IN  [products |-> (prods \ {e}) \cup {u}, is_new |-> TRUE]
        ELSE [products |-> prods \cup
                  {Row(brand, name, url, image_url, Null, day, day, TRUE)},
              is_new |-> TRUE]

\* add_product: [products, is_new]
add_product(prods, brand, name, url, image_url, day) ==
    LET existing == {r \in prods : r.brand = brand /\ r.name = name}
    IN  IF existing # {}
        THEN LET e == CHOOSE r \in existing : TRUE
                 u == [e EXCEPT !.last_seen = day,
                                !.url = Coalesce(url, e.url),
                                !.image_url = Coalesce(image_url, e.image_url)]
             IN  [products |-> (prods \ {e}) \cup {u}, is_new |-> FALSE]
        ELSE [products |-> prods \cup
                  {Row(brand, name, url, image_url, Null, day, day, TRUE)},
              is_new |-> TRUE]

\* add_product_vision with a slip: the UPDATE sets first_seen too.
add_product_vision_resets(prods, brand, name, category, day) ==
    LET existing == {r \in prods : r.brand = brand /\ Lower(r.name) = Lower(name)}
    IN  IF existing # {}
        THEN {[products |->
                  (prods \ {e}) \cup
                  {[e EXCEPT !.first_seen = day, !.last_seen = day,
                             !.category = Coalesce(category, e.category)]},
               is_new |-> FALSE] : e \in existing}
        ELSE {[products |-> prods \cup
                  {Row(brand, name, Null, Null, category, day, day, TRUE)},
               is_new |-> TRUE]}

\* add_product_vision: the set of [products, is_new] it can produce; fetchone()
\* takes one of the rows that match ignoring case, in no specified order.
add_product_vision(prods, brand, name, category, day) ==
    LET existing == {r \in prods : r.brand = brand /\ Lower(r.name) = Lower(name)}
    IN  IF existing # {}
        THEN {[products |->
                  (prods \ {e}) \cup
                  {[e EXCEPT !.last_seen = day,
                             !.category = Coalesce(category, e.category)]},
               is_new |-> FALSE] : e \in existing}
        ELSE {[products |-> prods \cup
                  {Row(brand, name, Null, Null, category, day, day, TRUE)},
               is_new |-> TRUE]}

\* The SELECT with a slip: the brand is not compared.
select_existing_any_brand(prods, method, brand, name) ==
    LET found == {r \in prods :
                     IF method = "vision" THEN Lower(r.name) = Lower(name)
                     ELSE r.name = name}
    IN  IF found = {} THEN {Null} ELSE {<<r.brand, r.name>> : r \in found}

\* The SELECT and fetchone() of add_product ("scrape") and add_product_vision
\* ("vision"): the rows it can fetch, or Null.  The id of a row is given as
\* its brand and name, which no statement changes.
select_existing(prods, method, brand, name) ==
    LET found == {r \in prods :
                     /\ r.brand = brand
                     /\ IF method = "vision" THEN Lower(r.name) = Lower(name)
                        ELSE r.name = name}
    IN  IF found = {} THEN {Null} ELSE {<<r.brand, r.name>> : r \in found}

\* The UPDATE ... WHERE id = ? or the INSERT of a call c that fetched
\* c.existing: [products, is_new]
write_row(prods, c, day) ==
    IF c.existing # Null
    THEN [products |->
              {IF <<r.brand, r.name>> # c.existing THEN r
               ELSE IF c.method = "vision"
               THEN [r EXCEPT !.last_seen = day,
                              !.category = Coalesce(c.category, r.category)]
               ELSE [r EXCEPT !.last_seen = day,
                              !.url = Coalesce(c.url, r.url),
                              !.image_url = Coalesce(c.image_url, r.image_url)] :
               r \in prods},
          is_new |-> FALSE]
    ELSE [products |-> prods \cup
              {Row(c.brand, c.name, c.url, c.image_url, c.category, day, day, TRUE)},
          is_new |-> TRUE]

\* One call run alone: the SELECT, then the write.
reconcile(prods, c, day) ==
    {write_row(prods, [c EXCEPT !.existing = e], day) :
        e \in select_existing(prods, c.method, c.brand, c.name)}

\* log_scrape with a slip: the row replaces the rows of the table.
log_scrape_replaces(log, brand, products_found, new_products, status, error, method, day) ==
    <<[brand |-> brand, scrape_date |-> day,
       products_found |-> products_found, new_products |-> new_products,
       status |-> status, error |-> error, method |-> method]>>

\* log_scrape
log_scrape(log, brand, products_found, new_products, status, error, method, day) ==
    Append(log, [brand |-> brand, scrape_date |-> day,
                 products_found |-> products_found, new_products |-> new_products,
                 status |-> status, error |-> error, method |-> method])

\* mark_all_as_baseline with a slip: the rows are marked as seen too.
baseline_rows_marks_seen(prods, day) ==
    {[r EXCEPT !.first_seen = day - BASELINE_DAYS, !.is_new = FALSE] : r \in prods}

\* mark_all_as_baseline: UPDATE products SET first_seen = date('now', '-30 days')
baseline_rows(prods, day) ==
    {[r EXCEPT !.first_seen = day - BASELINE_DAYS] : r \in prods}

\* get_new_products: the rows WHERE first_seen >= date('now', '-N days'), as
\* the set of the columns selected
get_new_products(prods, since_days, day) ==
    {[brand |-> r.brand, name |-> r.name, url |-> r.url, image_url |-> r.image_url,
      first_seen |-> r.first_seen] :
     r \in {x \in prods : x.first_seen >= day - since_days}}

\* mark_products_as_seen with a slip: the rows seen before are deleted.
seen_rows_purges(prods) == {[r EXCEPT !.is_new = FALSE] : r \in {x \in prods : x.is_new}}

\* mark_products_as_seen: UPDATE products SET is_new = 0
seen_rows(prods) == {[r EXCEPT !.is_new = FALSE] : r \in prods}

----------------------------------------------------------------------------
(* scraper.py: is_valid_product_name *)

MIN_NAME_LENGTH == 4
MAX_NAME_LENGTH == 100

\* Two of the SKIP_WORDS.
SKIP_WORDS == {<<"h", "o", "m", "e">>, <<"m", "e", "n", "u">>}

\* The whitespace characters of the model's texts (\s, str.strip).
Whitespace == {" ", "\t"}

\* str.strip(): the text without the whitespace at its ends
strip(text) ==
    LET inked == {i \in DOMAIN text : text[i] \notin Whitespace}
    IN  IF inked = {} THEN <<>>
        ELSE SubSeq(text,
                    CHOOSE i \in inked : \A j \in inked : i <= j,
                    CHOOSE i \in inked : \A j \in inked : j <= i)

\* str.startswith
startswith(text, prefix) ==
    Len(prefix) <= Len(text) /\ SubSeq(text, 1, Len(prefix)) = prefix

\* The text without the whitespace it begins with.
lstrip(text) ==
    LET inked == {i \in DOMAIN text : text[i] \notin Whitespace}
    IN  IF inked = {} THEN <<>>
        ELSE SubSeq(text, CHOOSE i \in inked : \A j \in inked : i <= j, Len(text))

\* re.search of each of menu_patterns
language_code(text) ==
    \E code \in {<<"e", "n">>, <<"e", "l">>, <<"r", "u">>} :
        startswith(text, code) /\ lstrip(SubSeq(text, 3, Len(text))) = <<>>

just_numbers(text) ==
    text # <<>> /\ \A i \in DOMAIN text : text[i] \in {"0", "1", "5"}

arrows(text) == text # <<>> /\ text[1] \in {"→", "←", "↓", "↑", "»", "«"}

multiple_pipes(text) ==
    \E i \in 1..(Len(text) - 1) : text[i] = "|" /\ text[i + 1] = "|"

view_more(text) ==
    \E verb \in {<<"v", "i", "e", "w">>, <<"s", "e", "e">>, <<"r", "e", "a", "d">>,
                  <<"c", "l", "i", "c", "k">>, <<"l", "e", "a", "r", "n">>} :
        /\ startswith(text, verb \o <<" ">>)
        /\ \E what \in {<<"a", "l", "l">>, <<"m", "o", "r", "e">>} :
              startswith(lstrip(SubSeq(text, Len(verb) + 1, Len(text))), what)

\* is_valid_product_name with a slip: the name is compared as it is written.
is_valid_product_name_cased(name) ==
    IF name = <<>> \/ Len(name) < MIN_NAME_LENGTH \/ Len(name) > MAX_NAME_LENGTH
    THEN FALSE
    ELSE LET name_lower == strip(name)
         IN  IF \E skip \in SKIP_WORDS :
                    name_lower = skip \/ startswith(name_lower, skip \o <<" ">>)
             THEN FALSE
             ELSE IF Len(name) > 5
                     /\ 10 * Cardinality({i \in DOMAIN name : name[i] \in UpperChars})
                            > 7 * Len(name)
             THEN FALSE
             ELSE ~(\/ language_code(name_lower)
                    \/ just_numbers(name_lower)
                    \/ arrows(name_lower)
                    \/ multiple_pipes(name_lower)
                    \/ view_more(name_lower))

\* is_valid_product_name; the ratio of upper-case letters > 0.7 is compared
\* in tenths.
is_valid_product_name(name) ==
    IF name = <<>> \/ Len(name) < MIN_NAME_LENGTH \/ Len(name) > MAX_NAME_LENGTH
    THEN FALSE
    ELSE LET name_lower == strip(Lower(name))
         IN  IF \E skip \in SKIP_WORDS :
                    name_lower = skip \/ startswith(name_lower, skip \o <<" ">>)
             THEN FALSE
             ELSE IF Len(name) > 5
                     /\ 10 * Cardinality({i \in DOMAIN name : name[i] \in UpperChars})
                            > 7 * Len(name)
             THEN FALSE
             ELSE ~(\/ language_code(name_lower)
                    \/ just_numbers(name_lower)
                    \/ arrows(name_lower)
                    \/ multiple_pipes(name_lower)
                    \/ view_more(name_lower))

\* The names handed to the validator: up to MaxWords pieces of text, long
\* names of lower-case letters after some upper-case ones, and four names of
\* the specification.
Words ==
    {<<"H", "o", "m", "e">>, <<"H", "O", "M", "E">>, <<"h", "o", "m", "e">>,
     <<"E", "N">>, <<" ">>, <<"x">>, <<"X">>, <<"1">>, <<"|">>}

RECURSIVE TextsOf(_)
TextsOf(n) ==
    IF n = 0 THEN {<<>>}
    ELSE TextsOf(n - 1) \cup {t \o w : t \in TextsOf(n - 1), w \in Words}

LongName(upper, n) == [i \in 1..n |-> IF i <= upper THEN "X" ELSE "x"]

LongNames ==
    {LongName(upper, n) :
        upper \in {0, 70, 71},
        n \in {MAX_NAME_LENGTH - 1, MAX_NAME_LENGTH, MAX_NAME_LENGTH + 1}}

Home == <<"H", "o", "m", "e">>
EN == <<"E", "N">>
ReadMore == <<"→", " ", "R", "e", "a", "d", " ", "m", "o", "r", "e">>
HeinzTomatoKetchup ==
    <<"H", "e", "i", "n", "z", " ", "T", "o", "m", "a", "t", "o", " ",
      "K", "e", "t", "c", "h", "u", "p", " ", "5", "0", "0", "m", "l">>

CheckedNames ==
    TextsOf(MaxWords) \cup LongNames \cup {Home, EN, ReadMore, HeinzTomatoKetchup}

----------------------------------------------------------------------------
(* scraper.py: clean_text *)

\* re.sub(r'\s+', ' ', text): every run of whitespace becomes one space; the
\* characters kept are those that are not whitespace and the first of each
\* run.
collapse(text) ==
    LET kept == {i \in DOMAIN text :
                    text[i] \notin Whitespace \/ i = 1 \/ text[i - 1] \notin Whitespace}
        at(k) == CHOOSE i \in kept : Cardinality({j \in kept : j <= i}) = k
    IN  [k \in 1..Cardinality(kept) |->
            IF text[at(k)] \in Whitespace THEN " " ELSE text[at(k)]]

\* The characters of the class the second substitution removes: the hyphen,
\* the en dash (U+2013), the em dash (U+2014) and the colon.
Dashes == {"-", "U+2013", "U+2014", ":"}

\* The text without the dashes and colons it begins with, or ends with.
RECURSIVE without_leading(_)
without_leading(text) ==
    IF text # <<>> /\ Head(text) \in Dashes THEN without_leading(Tail(text))
    ELSE text

RECURSIVE without_trailing(_)
without_trailing(text) ==
    IF text # <<>> /\ text[Len(text)] \in Dashes
    THEN without_trailing(SubSeq(text, 1, Len(text) - 1))
    ELSE text

\* re.sub(r'^[...]+|[...]+$', '', text) over the class Dashes: the run at the start and the run
\* at the end are removed, once.
strip_dashes(text) == without_trailing(without_leading(text))

\* clean_text
clean_text(text) ==
    IF text = <<>> THEN <<>>
    ELSE strip(strip_dashes(strip(collapse(text))))

\* The texts handed to clean_text: up to MaxChars characters.
RECURSIVE RawTexts(_)
RawTexts(n) ==
    IF n = 0 THEN {<<>>}
    ELSE RawTexts(n - 1)
         \cup {Append(t, c) : t \in RawTexts(n - 1), c \in {" ", "\t", "-", ":", "x"}}

----------------------------------------------------------------------------
(* scraper.py: extract_products *)

\* elements[:100] and elem.get_text()[:150]
CONTAINER_LIMIT == 100
TEXT_LIMIT == 150

\* seq[:n]
take(seq, n) == [i \in 1..(IF n < Len(seq) THEN n ELSE Len(seq)) |-> seq[i]]

\* The characters of [|..]: the bar, the middle dot (U+00B7) and the bullet
\* (U+2022).
Separators == {"|", "U+00B7", "U+2022"}

\* re.split(r'[|..]', text)
RECURSIVE split(_)
split(text) ==
    IF \A i \in DOMAIN text : text[i] \notin Separators THEN <<text>>
    ELSE LET i == CHOOSE k \in DOMAIN text :
                      /\ text[k] \in Separators
                      /\ \A j \in 1..(k - 1) : text[j] \notin Separators
         IN  <<SubSeq(text, 1, i - 1)>> \o split(SubSeq(text, i + 1, Len(text)))

\* The first of the texts that is a valid name once cleaned, or "".
RECURSIVE first_valid(_)
first_valid(texts) ==
    IF texts = <<>> THEN <<>>
    ELSE IF is_valid_product_name(clean_text(Head(texts)))
    THEN clean_text(Head(texts))
    ELSE first_valid(Tail(texts))

\* The name of a container: from the elements the name selectors match, in the
\* selectors' order, else from the parts of the container's own text.
name_of(elem) ==
    LET name == first_valid(elem.selected)
    IN  IF name # <<>> THEN name
        ELSE first_valid(split(clean_text(take(elem.text, TEXT_LIMIT))))

\* seen_names when the loop reaches the container i: a container that has a
\* name leaves it there, lower-cased, whether the pass added it or found it.
seen_names(names, i) == {Lower(names[j]) : j \in {k \in 1..(i - 1) : names[k] # <<>>}}

\* The passes of the loop that reach products.append.
appended(names) ==
    {i \in DOMAIN names : ~(names[i] = <<>> \/ Lower(names[i]) \in seen_names(names, i))}

\* for elem in elements: the candidates of the passes that append one, in the
\* containers' order.
extract_loop(elements) ==
    LET names == [i \in DOMAIN elements |-> name_of(elements[i])]
        passes == appended(names)
        at(k) == CHOOSE i \in passes : Cardinality({j \in passes : j <= i}) = k
    IN  [k \in 1..Cardinality(passes) |->
            [name |-> names[at(k)], url |-> elements[at(k)].url,
             image_url |-> elements[at(k)].image_url]]

\* extract_products with a slip: every container is read.
extract_products_uncapped(elements, product_sel) ==
    IF product_sel = "" THEN <<>>
    ELSE extract_loop(elements)

\* extract_products; elements are the containers the product selector, or the
\* first fallback selector that matches, finds on the page.
extract_products(elements, product_sel) ==
    IF product_sel = "" THEN <<>>
    ELSE extract_loop(take(elements, CONTAINER_LIMIT))

\* The containers of the pages handed to extract_products.
Homex == <<"H", "o", "m", "e", "x">>
Tomato == <<"T", "o", "m", "a", "t", "o">>
Container(selected, text, url) ==
    [selected |-> selected, text |-> text, url |-> url, image_url |-> Null]

Padded(n, text) == [i \in 1..n |-> " "] \o text

Unnamed == Container(<<>>, Home, Null)

Containers ==
    {Container(<<Homex>>, <<>>, "/homex"),
     Container(<<Lower(Homex)>>, <<>>, Null),
     Container(<<<<"-", " ">> \o Homex>>, Home, Null),
     Container(<<EN, Tomato>>, <<>>, "/tomato"),
     Container(<<Home>>, Home \o <<" ", "|", " ">> \o Tomato, Null),
     Container(<<>>, EN \o <<"U+2022">> \o EN, Null),
     Container(<<>>, Padded(TEXT_LIMIT - 3, Homex), Null)}

RECURSIVE Tails(_)
Tails(n) ==
    IF n = 0 THEN {<<>>}
    ELSE Tails(n - 1) \cup {Append(t, c) : t \in Tails(n - 1), c \in Containers}

ExtractInputs ==
    {[elements |-> [i \in 1..n |-> Unnamed] \o tail, product_sel |-> sel] :
        n \in {0, CONTAINER_LIMIT - 2, CONTAINER_LIMIT - 1, CONTAINER_LIMIT},
        tail \in Tails(MaxTail),
        sel \in {"", ".product"}}

----------------------------------------------------------------------------
(* scraper.py: scrape_brand *)

\* The candidates extract_products returns: a name, and a url and an image_url
\* that are both found or both None.
MarkupCandidates ==
    {[name |-> n, url |-> f[1], image_url |-> f[2]] :
        n \in Names, f \in {<<Null, Null>>, <<"u1", "i1">>}}

BareCandidates == {c \in MarkupCandidates : c.url = Null}

\* The lists extract_products can return for one page: it keeps one candidate
\* per lower-cased name.
SinglePages == {<<>>} \cup {<<c>> : c \in MarkupCandidates}

BarePages ==
    {<<>>} \cup {<<c>> : c \in BareCandidates}
    \cup {p \in BareCandidates \X BareCandidates : Lower(p[1].name) # Lower(p[2].name)}

\* What one URL of a brand yields: get_page_content returns nothing ("none"),
\* the try block raises ("raise"), or extract_products returns a list ("page").
Failures ==
    {[kind |-> "none", products |-> <<>>], [kind |-> "raise", products |-> <<>>]}

OutcomesOf(pages) == Failures \cup {[kind |-> "page", products |-> p] : p \in pages}

SingleOutcomes == OutcomesOf(SinglePages)

BareOutcomes == OutcomesOf(BarePages)

MixedOutcomes == OutcomesOf(SinglePages \cup BarePages)

\* the for loop with a slip: a failed fetch ends the loop (break for continue).
RECURSIVE fetch_loop_breaks(_, _, _, _, _)
fetch_loop_breaks(urls, outs, i, all_products, errors) ==
    IF i > Len(urls)
    THEN [all_products |-> all_products, errors |-> errors]
    ELSE CASE outs[i].kind = "none" ->
                [all_products |-> all_products,
                 errors |-> Append(errors, <<"Failed to fetch ", urls[i]>>)]
           [] outs[i].kind = "raise" ->
                fetch_loop_breaks(urls, outs, i + 1, all_products,
                                  Append(errors, <<"exception text">>))
           [] OTHER ->
                fetch_loop_breaks(urls, outs, i + 1,
                                  all_products \o outs[i].products, errors)

\* the for loop over urls: all_products and errors.  A note is the text of
\* "Failed to fetch {url}" or of str(e)[:100], as its tokens.
RECURSIVE fetch_loop(_, _, _, _, _)
fetch_loop(urls, outs, i, all_products, errors) ==
    IF i > Len(urls)
    THEN [all_products |-> all_products, errors |-> errors]
    ELSE CASE outs[i].kind = "none" ->
                fetch_loop(urls, outs, i + 1, all_products,
                           Append(errors, <<"Failed to fetch ", urls[i]>>))
           [] outs[i].kind = "raise" ->
                fetch_loop(urls, outs, i + 1, all_products,
                           Append(errors, <<"exception text">>))
           [] OTHER ->
                fetch_loop(urls, outs, i + 1, all_products \o outs[i].products,
                           errors)

\* time.sleep(REQUEST_DELAY) in scrape_brand; time.sleep(1) in scrape_all and
\* run_all
REQUEST_DELAY == 2
BRAND_DELAY == 1

\* What a run does outside the store, in the order it does it: the call for a
\* brand ("scrape_brand", "process_brand"), a request ("get"), a screenshot
\* ("capture"), a pause ("sleep").
Event(do, brand, url, seconds) ==
    [do |-> do, brand |-> brand, url |-> url, seconds |-> seconds]

\* the for loop over urls: the requests and the pauses.  The pause is the last
\* statement of the try block: it is reached when the page was fetched and
\* extract_products returned.
RECURSIVE fetch_events(_, _, _, _)
fetch_events(brand, urls, outs, i) ==
    IF i > Len(urls) THEN <<>>
    ELSE <<Event("get", brand, urls[i], 0)>>
         \o (IF outs[i].kind = "page"
             THEN <<Event("sleep", brand, urls[i], REQUEST_DELAY)>>
             ELSE <<>>)
         \o fetch_events(brand, urls, outs, i + 1)

\* scrape_brand: its requests and pauses
scrape_brand_events(brand, config, outs) ==
    <<Event("scrape_brand", brand, Null, 0)>>
    \o (IF config.urls = <<>> THEN <<>>
        ELSE fetch_events(brand, config.urls, outs, 1))

\* scrape_single: its requests and pauses
scrape_single_events(brand, outs) ==
    IF brand \notin Brands THEN <<>>
    ELSE scrape_brand_events(brand, COMPETITORS[brand], outs)

\* scrape_all: the requests and pauses of every brand from the i-th on
RECURSIVE scrape_all_events(_, _)
scrape_all_events(i, outs) ==
    IF i > Len(BrandOrder) THEN <<>>
    ELSE LET brand == BrandOrder[i]
         IN  scrape_brand_events(brand, COMPETITORS[brand], outs[brand])
             \o <<Event("sleep", brand, Null, BRAND_DELAY)>>
             \o scrape_all_events(i + 1, outs)

\* "; ".join(errors)
RECURSIVE join(_)
join(errors) ==
    IF Len(errors) = 0 THEN <<>>
    ELSE IF Len(errors) = 1 THEN errors[1]
    ELSE errors[1] \o <<"; ">> \o join(Tail(errors))

\* Deduplicate with a slip: the key is the name as written (no .lower()).
RECURSIVE deduplicate_exact(_, _, _)
deduplicate_exact(all_products, seen, unique_products) ==
    IF all_products = <<>> THEN unique_products
    ELSE LET p == Head(all_products)
             key == p.name
         IN  IF key \notin seen
             THEN deduplicate_exact(Tail(all_products), seen \cup {key},
                                    Append(unique_products, p))
             ELSE deduplicate_exact(Tail(all_products), seen, unique_products)

\* Deduplicate across URLs
RECURSIVE deduplicate(_, _, _)
deduplicate(all_products, seen, unique_products) ==
    IF all_products = <<>> THEN unique_products
    ELSE LET p == Head(all_products)
             key == Lower(p.name)
         IN  IF key \notin seen
             THEN deduplicate(Tail(all_products), seen \cup {key},
                              Append(unique_products, p))
             ELSE deduplicate(Tail(all_products), seen, unique_products)

\* The add_product loop with a slip: every candidate saved is counted as new.
RECURSIVE save_loop_counts_all(_, _, _, _, _)
save_loop_counts_all(prods, brand, unique_products, day, new_count) ==
    IF unique_products = <<>>
    THEN [products |-> prods, new_count |-> new_count]
    ELSE LET prod == Head(unique_products)
             r == add_product(prods, brand, prod.name, prod.url, prod.image_url, day)
         IN  save_loop_counts_all(r.products, brand, Tail(unique_products), day,
                                  new_count + 1)

\* Save to database: the add_product loop, [products, new_count]
RECURSIVE save_loop(_, _, _, _, _)
save_loop(prods, brand, unique_products, day, new_count) ==
    IF unique_products = <<>>
    THEN [products |-> prods, new_count |-> new_count]
    ELSE LET prod == Head(unique_products)
             r == add_product(prods, brand, prod.name, prod.url, prod.image_url, day)
         IN  save_loop(r.products, brand, Tail(unique_products), day,
                       IF r.is_new THEN new_count + 1 ELSE new_count)

\* status and error_msg of the final log_scrape
final_status(errors) == IF errors = <<>> THEN "success" ELSE "partial"

final_error(errors) == IF errors # <<>> THEN Text(join(errors)) ELSE NoText

\* scrape_brand: the store after the call and what the call returns
scrape_brand(prods, log, brand, config, outs, day) ==
    IF config.urls = <<>>
    THEN [products |-> prods,
          scrape_log |-> log_scrape(log, brand, 0, 0, "skipped",
                                    Text(<<ConfigStatus(config)>>), "scrape", day),
          handed |-> <<>>, reconciled |-> FALSE,
          total |-> 0, new |-> 0]
    ELSE LET f == fetch_loop(config.urls, outs, 1, <<>>, <<>>)
             unique_products == deduplicate(f.all_products, {}, <<>>)
             s == save_loop(prods, brand, unique_products, day, 0)
         IN  [products |-> s.products,
              scrape_log |-> log_scrape(log, brand, Len(unique_products),
                                        s.new_count, final_status(f.errors),
                                        final_error(f.errors), "scrape", day),
              handed |-> unique_products,
              reconciled |-> TRUE,
              total |-> Len(unique_products), new |-> s.new_count]

\* scrape_brand for a brand with URLs when the process is terminated after k
\* calls of add_product: no later call is made and log_scrape is not reached.
scrape_brand_terminated(prods, log, brand, config, outs, day, k) ==
    LET f == fetch_loop(config.urls, outs, 1, <<>>, <<>>)
        unique_products == deduplicate(f.all_products, {}, <<>>)
        reached == [i \in 1..(IF k < Len(unique_products) THEN k
                              ELSE Len(unique_products)) |-> unique_products[i]]
        s == save_loop(prods, brand, reached, day, 0)
    IN  [products |-> s.products, scrape_log |-> log,
         handed |-> unique_products, reconciled |-> FALSE,
         total |-> 0, new |-> 0]

\* scrape_single: the store after the call and the pair it returns
scrape_single(prods, log, brand, outs, day) ==
    IF brand \notin Brands
    THEN [products |-> prods, scrape_log |-> log, handed |-> <<>>,
          reconciled |-> FALSE, total |-> 0, new |-> 0, returned |-> <<0, 0>>]
    ELSE LET r == scrape_brand(prods, log, brand, COMPETITORS[brand], outs, day)
         IN  [products |-> r.products, scrape_log |-> r.scrape_log,
              handed |-> r.handed, reconciled |-> r.reconciled,
              total |-> r.total, new |-> r.new, returned |-> <<r.total, r.new>>]

\* scrape_all: scrape_brand for every brand from the i-th on, in order; outs
\* gives every brand the outcome of each of its URLs.
RECURSIVE scrape_all(_, _, _, _, _, _, _)
scrape_all(prods, log, i, outs, day, total_products, total_new) ==
    IF i > Len(BrandOrder)
    THEN [products |-> prods, scrape_log |-> log,
          total_products |-> total_products, total_new |-> total_new]
    ELSE LET brand == BrandOrder[i]
             r == scrape_brand(prods, log, brand, COMPETITORS[brand], outs[brand], day)
         IN  scrape_all(r.products, r.scrape_log, i + 1, outs, day,
                        total_products + r.total, total_new + r.new)

----------------------------------------------------------------------------
(* vision_analyzer.py: analyze_screenshot *)

\* The text of a response, as tokens: the brackets, the comma, a JSON object
\* and a word of prose.  A response is up to MaxPieces of these pieces.
Pieces ==
    {<<"prose">>, <<"[">>, <<"]">>, <<",">>,
     <<"[", "prose", "]">>,
     <<"[", "]">>,
     <<"[", "{}", "]">>,
     <<"[", "{}", ",", "{}", "]">>}

RECURSIVE ResponsesOf(_)
ResponsesOf(n) ==
    IF n = 0 THEN {<<>>}
    ELSE ResponsesOf(n - 1)
         \cup {r \o p : r \in ResponsesOf(n - 1), p \in Pieces}

Responses == ResponsesOf(MaxPieces)

\* str.find and str.rfind: the 0-based index, or -1
find(text, t) ==
    IF \E i \in DOMAIN text : text[i] = t
    THEN (CHOOSE i \in DOMAIN text :
              text[i] = t /\ \A j \in 1..(i - 1) : text[j] # t) - 1
    ELSE -1

rfind(text, t) ==
    IF \E i \in DOMAIN text : text[i] = t
    THEN (CHOOSE i \in DOMAIN text :
              text[i] = t /\ \A j \in (i + 1)..Len(text) : text[j] # t) - 1
    ELSE -1

\* text[start:end]
slice(text, start, end) == SubSeq(text, start + 1, end)

\* The JSON grammar on tokens: a value is an object or an array; an array is
\* "[", values separated by ",", "]".  after_value and after_elements give the
\* position after what they read (1-based), or 0 where the text is not JSON.
RECURSIVE after_value(_, _)
RECURSIVE after_elements(_, _, _)
after_value(text, i) ==
    IF i > Len(text) THEN 0
    ELSE IF text[i] = "{}" THEN i + 1
    ELSE IF text[i] = "[" THEN after_elements(text, i + 1, TRUE)
    ELSE 0

after_elements(text, i, first) ==
    IF i > Len(text) THEN 0
    ELSE IF first /\ text[i] = "]" THEN i + 1
    ELSE LET j == after_value(text, i)
         IN  IF j = 0 \/ j > Len(text) THEN 0
             ELSE IF text[j] = "]" THEN j + 1
             ELSE IF text[j] = "," THEN after_elements(text, j + 1, FALSE)
             ELSE 0

\* The elements of the array that text is, from position i on.
RECURSIVE elements(_, _)
elements(text, i) ==
    IF text[i] = "]" THEN <<>>
    ELSE LET j == after_value(text, i)
         IN  <<SubSeq(text, i, j - 1)>>
             \o (IF text[j] = "," THEN elements(text, j + 1) ELSE <<>>)

JSONDecodeError == "JSONDecodeError"

\* json.loads of a text that begins with "[": the list, or JSONDecodeError
json_loads(json_str) ==
    IF after_value(json_str, 1) = Len(json_str) + 1
    THEN elements(json_str, 2)
    ELSE JSONDecodeError

\* analyze_screenshot, from the response text on: the list it returns
analyze_screenshot(response_text) ==
    LET start == find(response_text, "[")
        end == rfind(response_text, "]") + 1
    IN  IF start # -1 /\ end > start
        THEN LET products_ == json_loads(slice(response_text, start, end))
             IN  IF products_ = JSONDecodeError THEN <<>> ELSE products_
        ELSE <<>>

----------------------------------------------------------------------------
(* run_vision.py: process_brand *)

\* The elements of the list analyze_screenshot returns: JSON objects with an
\* optional name and an optional category.  A missing, empty or blank name is
\* Blank.  The list is not deduplicated.
VisionCandidates ==
    {[name |-> n, category |-> c] : n \in Names, c \in {Missing, Null, "sauce"}}
    \cup {[name |-> Blank, category |-> Missing]}

Analyses == {<<>>} \cup {<<c>> : c \in VisionCandidates}

\* Responses of two elements, neither with a category.
PlainCandidates == {c \in VisionCandidates : c.category = Missing}

PairAnalyses == Analyses \cup (PlainCandidates \X PlainCandidates)

\* prod.get("category", "")
get_category(prod) == IF prod.category = Missing THEN "" ELSE prod.category

\* Step 3: Save to database: the add_product_vision loop, the set of
\* [products, new_count] it can end with
RECURSIVE vision_loop(_, _, _, _, _)
vision_loop(prods, brand, found, day, new_count) ==
    IF found = <<>>
    THEN {[products |-> prods, new_count |-> new_count]}
    ELSE LET prod == Head(found)
         IN  IF prod.name # Blank
             THEN UNION {vision_loop(r.products, brand, Tail(found), day,
                                     IF r.is_new THEN new_count + 1 ELSE new_count) :
                         r \in add_product_vision(prods, brand, prod.name,
                                                  get_category(prod), day)}
             ELSE vision_loop(prods, brand, Tail(found), day, new_count)

\* process_brand: the set of outcomes of one call.  captured: capture_screenshot
\* succeeded; found: what analyze_screenshot returns.
process_brand(prods, log, shots, brand, config, skip_screenshot, captured, found, day) ==
    LET quiet == [products |-> prods, scrape_log |-> log, screenshots |-> shots,
                  handed |-> <<>>, reconciled |-> FALSE, total |-> 0, new |-> 0]
    IN  IF config.urls = <<>> THEN {quiet}
        ELSE IF ~skip_screenshot /\ ~captured
        THEN {[quiet EXCEPT !.scrape_log =
                  log_scrape(log, brand, 0, 0, "error",
                             Text(<<"Screenshot failed">>), "vision", day)]}
        ELSE IF skip_screenshot /\ brand \notin shots THEN {quiet}
        ELSE LET shots2 == IF skip_screenshot THEN shots ELSE shots \cup {brand}
             IN  IF found = <<>>
                 THEN {[quiet EXCEPT
                          !.screenshots = shots2,
                          !.scrape_log =
                              log_scrape(log, brand, 0, 0, "success",
                                         Text(<<"No products found">>), "vision", day)]}
                 ELSE {[products |-> s.products,
                        scrape_log |-> log_scrape(log, brand, Len(found), s.new_count,
                                                  "success", NoText, "vision", day),
                        screenshots |-> shots2,
                        handed |-> found, reconciled |-> TRUE,
                        total |-> Len(found), new |-> s.new_count] :
                       s \in vision_loop(prods, brand, found, day, 0)}

\* process_brand: the screenshot it takes, of the first URL
process_brand_events(brand, config, skip_screenshot) ==
    <<Event("process_brand", brand, Null, 0)>>
    \o (IF config.urls # <<>> /\ ~skip_screenshot
        THEN <<Event("capture", brand, config.urls[1], 0)>>
        ELSE <<>>)

\* run_single: the screenshot it takes
run_single_events(brand, api_key, skip_screenshot) ==
    IF brand \notin Brands \/ ~api_key THEN <<>>
    ELSE process_brand_events(brand, COMPETITORS[brand], skip_screenshot)

\* run_all: the screenshots and pauses of every brand from the i-th on
RECURSIVE run_all_events(_, _, _)
run_all_events(i, api_key, skip_screenshot) ==
    IF ~api_key \/ i > Len(BrandOrder) THEN <<>>
    ELSE LET brand == BrandOrder[i]
         IN  process_brand_events(brand, COMPETITORS[brand], skip_screenshot)
             \o <<Event("sleep", brand, Null, BRAND_DELAY)>>
             \o run_all_events(i + 1, api_key, skip_screenshot)

\* run_single: the set of outcomes of one call; it returns None on every path.
run_single(prods, log, shots, brand, api_key, skip_screenshot, captured, found, day) ==
    IF brand \notin Brands \/ ~api_key
    THEN {[products |-> prods, scrape_log |-> log, screenshots |-> shots,
           handed |-> <<>>, reconciled |-> FALSE, total |-> 0, new |-> 0,
           returned |-> Null]}
    ELSE {[products |-> r.products, scrape_log |-> r.scrape_log,
           screenshots |-> r.screenshots, handed |-> r.handed,
           reconciled |-> r.reconciled, total |-> r.total, new |-> r.new,
           returned |-> Null] :
          r \in process_brand(prods, log, shots, brand, COMPETITORS[brand],
                              skip_screenshot, captured, found, day)}

\* the for loop of run_all: process_brand for every brand from the i-th on, in
\* order; the set of stores it can end with.
RECURSIVE run_all_loop(_, _, _, _, _, _, _, _)
run_all_loop(prods, log, shots, i, skip_screenshot, captured, found, day) ==
    IF i > Len(BrandOrder)
    THEN {[products |-> prods, scrape_log |-> log, screenshots |-> shots]}
    ELSE LET brand == BrandOrder[i]
         IN  UNION {run_all_loop(r.products, r.scrape_log, r.screenshots, i + 1,
                                 skip_screenshot, captured, found, day) :
                    r \in process_brand(prods, log, shots, brand, COMPETITORS[brand],
                                        skip_screenshot, captured[brand],
                                        found[brand], day)}

\* run_all: nothing is done when ANTHROPIC_API_KEY is not set.
run_all(prods, log, shots, api_key, skip_screenshot, captured, found, day) ==
    IF ~api_key
    THEN {[products |-> prods, scrape_log |-> log, screenshots |-> shots]}
    ELSE run_all_loop(prods, log, shots, 1, skip_screenshot, captured, found, day)

----------------------------------------------------------------------------
(* The state machine. *)

NoOutcomes == <<>>

\* The processes that can each have a reconcile call in flight.
Procs == {1, 2}

\* No call in flight.  A call is at "select", at "write" or "done"; existing is
\* the row its SELECT fetched; raced: the other call had fetched and not yet
\* written when this one fetched.
Idle ==
    [pc |-> "idle", method |-> "", brand |-> "", name |-> <<>>, url |-> Null,
     image_url |-> Null, category |-> Null, existing |-> Null, is_new |-> FALSE,
     raced |-> FALSE]

Nothing == [handed |-> <<>>, reconciled |-> FALSE, total |-> 0, new |-> 0]

\* What is kept of the operation before the last one; of a run that was
\* terminated, also the store it started from; of a request for one brand,
\* also what it returned.
Summary(l) ==
    [op |-> l.op, brand |-> l.brand, handed |-> l.handed, reconciled |-> l.reconciled,
     total |-> l.total, new |-> l.new,
     started |-> IF l.op = "terminated" THEN l.before ELSE {},
     returned |-> IF l.op \in {"scrape_single", "run_single"} THEN l.returned ELSE Null]

\* The record of an operation: the store before it, its inputs (outs, the
\* outcome of each URL; skip_screenshot; captured), its results (handed, the
\* list handed to the reconcile loop; total and new, the counts returned) and
\* the operation that ran before it.  arg and returned are the argument and
\* the return value of an operation that has no other record of them; events
\* are the requests, screenshots and pauses of a run.
Last(op, brand, skip_screenshot, captured, outs, r) ==
    [op |-> op, brand |-> brand, before |-> products, log_before |-> scrape_log,
     day |-> today, skip_screenshot |-> skip_screenshot, captured |-> captured,
     outs |-> outs, handed |-> r.handed, reconciled |-> r.reconciled,
     total |-> r.total, new |-> r.new, arg |-> Null, returned |-> Null,
     events |-> <<>>, prev |-> Summary(last)]

\* No operation has run.
NoOperation ==
    [op |-> "init", brand |-> "", before |-> {}, log_before |-> <<>>,
     day |-> 0, skip_screenshot |-> FALSE, captured |-> FALSE,
     outs |-> NoOutcomes, handed |-> <<>>, reconciled |-> FALSE,
     total |-> 0, new |-> 0, arg |-> Null, returned |-> Null,
     events |-> <<>>,
     prev |-> [op |-> "init", brand |-> "", handed |-> <<>>,
               reconciled |-> FALSE, total |-> 0, new |-> 0,
               started |-> {}, returned |-> Null]]

\* The store init_db creates, and the input that is about to be read.
Fresh(input) ==
    /\ products = {}
    /\ scrape_log = <<>>
    /\ today = 0
    /\ ops = 0
    /\ screenshots = {}
    /\ calls = [p \in Procs |-> Idle]
    /\ last = [NoOperation EXCEPT !.arg = input]

Init == Fresh(Null)

\* One call of scrape_brand (scrape_single, or one iteration of scrape_all).
ScrapeBrand(brand, outcomes) ==
    /\ ops < MaxOps
    /\ Len(scrape_log) < MaxLog
    /\ \E outs \in [1..Len(COMPETITORS[brand].urls) -> outcomes] :
        LET r == scrape_brand(products, scrape_log, brand, COMPETITORS[brand],
                              outs, today)
        IN  /\ ops' = ops + 1
            /\ products' = r.products
            /\ scrape_log' = r.scrape_log
            /\ last' = [Last("scrape_brand", brand, FALSE, FALSE, outs, r)
                           EXCEPT !.events =
                               scrape_brand_events(brand, COMPETITORS[brand], outs)]
            /\ UNCHANGED <<today, screenshots, calls>>

\* analyze_screenshot is reached: the brand has a URL and a screenshot
analysed(brand, skip_screenshot, captured) ==
    /\ COMPETITORS[brand].urls # <<>>
    /\ IF skip_screenshot THEN brand \in screenshots ELSE captured

\* One call of process_brand (run_single, or one iteration of run_all).
ProcessBrand(brand, analyses, skips) ==
    /\ ops < MaxOps
    /\ Len(scrape_log) < MaxLog
    /\ \E skip_screenshot \in skips :
        \E captured \in IF skip_screenshot THEN {FALSE} ELSE BOOLEAN :
          \E found \in IF analysed(brand, skip_screenshot, captured)
                       THEN analyses ELSE {<<>>} :
            \E r \in process_brand(products, scrape_log, screenshots, brand,
                                   COMPETITORS[brand], skip_screenshot, captured,
                                   found, today) :
              /\ ops' = ops + 1
              /\ products' = r.products
              /\ scrape_log' = r.scrape_log
              /\ screenshots' = r.screenshots
              /\ last' = [Last("process_brand", brand, skip_screenshot, captured,
                               NoOutcomes, r)
                             EXCEPT !.events =
                                 process_brand_events(brand, COMPETITORS[brand],
                                                      skip_screenshot)]
              /\ UNCHANGED <<today, calls>>

\* mark_all_as_baseline
MarkAllAsBaseline ==
    /\ ops < MaxOps
    /\ ops' = ops + 1
    /\ products' = baseline_rows(products, today)
    /\ last' = Last("mark_all_as_baseline", "", FALSE, FALSE, NoOutcomes, Nothing)
    /\ UNCHANGED <<scrape_log, today, screenshots, calls>>

\* mark_products_as_seen
MarkProductsAsSeen ==
    /\ ops < MaxOps
    /\ ops' = ops + 1
    /\ products' = seen_rows(products)
    /\ last' = Last("mark_products_as_seen", "", FALSE, FALSE, NoOutcomes, Nothing)
    /\ UNCHANGED <<scrape_log, today, screenshots, calls>>

\* Time passes between two operations.
Tick ==
    \E d \in DaySteps :
        /\ ops < MaxOps
        /\ ops' = ops + 1
        /\ today' = today + d
        /\ last' = Last("tick", "", FALSE, FALSE, NoOutcomes, Nothing)
        /\ UNCHANGED <<products, scrape_log, screenshots, calls>>

\* The store over its life: runs of both strategies, one candidate a page.
Next ==
    \/ \E brand \in LifecycleBrands : ScrapeBrand(brand, SingleOutcomes)
    \/ \E brand \in LifecycleBrands : ProcessBrand(brand, Analyses, BOOLEAN)
    \/ MarkAllAsBaseline
    \/ MarkProductsAsSeen
    \/ Tick

Spec == Init /\ [][Next]_vars

\* The call of an operation that has its argument and return value recorded.
Call(op, brand, arg, returned, r) ==
    [Last(op, brand, FALSE, FALSE, NoOutcomes, r) EXCEPT
        !.arg = arg, !.returned = returned]

\* The pages of a run over all brands: nothing, or one candidate.
AllOutcomes == OutcomesOf({<<>>} \cup {<<c>> : c \in BareCandidates})

\* The responses of a run over all brands.
AllAnalyses == {<<>>} \cup {<<c>> : c \in PlainCandidates}

\* scrape_all
ScrapeAll ==
    /\ ops < MaxOps
    /\ Len(scrape_log) < MaxLog
    /\ \E outs \in [Brands -> [1..2 -> AllOutcomes]] :
        LET given == [b \in Brands |->
                         [i \in 1..Len(COMPETITORS[b].urls) |-> outs[b][i]]]
            r == scrape_all(products, scrape_log, 1, given, today, 0, 0)
        IN  /\ \A b \in Brands : \A i \in 1..2 :
                   i > Len(COMPETITORS[b].urls) => outs[b][i].kind = "none"
            /\ ops' = ops + 1
            /\ products' = r.products
            /\ scrape_log' = r.scrape_log
            /\ last' = [Call("scrape_all", "", Null,
                             <<r.total_products, r.total_new>>, Nothing)
                           EXCEPT !.events = scrape_all_events(1, given)]
            /\ UNCHANGED <<today, screenshots, calls>>

\* run_all
RunAll ==
    /\ ops < MaxOps
    /\ Len(scrape_log) < MaxLog
    /\ \E api_key \in BOOLEAN : \E skip_screenshot \in BOOLEAN :
        \E captured \in [Brands -> BOOLEAN] : \E found \in [Brands -> AllAnalyses] :
          \E r \in run_all(products, scrape_log, screenshots, api_key,
                            skip_screenshot, captured, found, today) :
            /\ ops' = ops + 1
            /\ products' = r.products
            /\ scrape_log' = r.scrape_log
            /\ screenshots' = r.screenshots
            /\ last' = [Call("run_all", "", Null, Null, Nothing)
                           EXCEPT !.events =
                               run_all_events(1, api_key, skip_screenshot)]
            /\ UNCHANGED <<today, calls>>

\* is_valid_product_name is asked about the name.
IsValidProductName ==
    /\ last.op = "init"
    /\ last.arg \in CheckedNames
    /\ last' = Call("is_valid_product_name", "", last.arg,
                    is_valid_product_name(last.arg), Nothing)
    /\ UNCHANGED <<products, scrape_log, today, ops, screenshots, calls>>

\* extract_products has found one of the names.
InitValidate == \E name \in CheckedNames : Fresh(name)

SpecValidate == InitValidate /\ [][IsValidProductName]_vars

\* clean_text is applied to the text.
CleanText ==
    /\ last.op = "init"
    /\ last.arg \in RawTexts(MaxChars)
    /\ last' = Call("clean_text", "", last.arg, clean_text(last.arg), Nothing)
    /\ UNCHANGED <<products, scrape_log, today, ops, screenshots, calls>>

\* extract_products has read one of the texts from the page.
InitClean == \E text \in RawTexts(MaxChars) : Fresh(text)

SpecClean == InitClean /\ [][CleanText]_vars

\* extract_products reads the containers of a page.
ExtractProducts ==
    /\ last.op = "init"
    /\ last.arg \in ExtractInputs
    /\ last' = Call("extract_products", "", last.arg,
                    extract_products(last.arg.elements, last.arg.product_sel),
                    Nothing)
    /\ UNCHANGED <<products, scrape_log, today, ops, screenshots, calls>>

\* fetch_page has returned a page.
InitExtract == \E page \in ExtractInputs : Fresh(page)

SpecExtract == InitExtract /\ [][ExtractProducts]_vars

\* analyze_screenshot reads the response of the vision model.
AnalyzeScreenshot ==
    /\ last.op = "init"
    /\ last.arg \in Responses
    /\ last' = Call("analyze_screenshot", "", last.arg,
                    analyze_screenshot(last.arg), Nothing)
    /\ UNCHANGED <<products, scrape_log, today, ops, screenshots, calls>>

\* The vision model has answered with one of the responses.
InitAnalyze == \E response_text \in Responses : Fresh(response_text)

SpecAnalyze == InitAnalyze /\ [][AnalyzeScreenshot]_vars

\* A call of scrape_brand that ends with the process, after k calls of
\* add_product.
ScrapeBrandTerminated(brand, outcomes) ==
    /\ ops < MaxOps
    /\ COMPETITORS[brand].urls # <<>>
    /\ \E outs \in [1..Len(COMPETITORS[brand].urls) -> outcomes] :
        \E k \in 0..2 :
          LET r == scrape_brand_terminated(products, scrape_log, brand,
                                          COMPETITORS[brand], outs, today, k)
          IN  /\ k <= Len(r.handed)
              /\ ops' = ops + 1
              /\ products' = r.products
              /\ last' = [Last("terminated", brand, FALSE, FALSE, outs, r)
                             EXCEPT !.arg = k,
                                    !.events =
                                        scrape_brand_events(brand, COMPETITORS[brand],
                                                            outs)]
              /\ UNCHANGED <<scrape_log, today, screenshots, calls>>

\* Runs of the markup orchestrator for one brand, some of them terminated.
NextResume ==
    \/ ScrapeBrand("Condito", MixedOutcomes)
    \/ ScrapeBrandTerminated("Condito", MixedOutcomes)

SpecResume == Init /\ [][NextResume]_vars

\* The calls two runs for different brands can make at the same time.
ReconcileCalls ==
    {[Idle EXCEPT !.pc = "select", !.method = "scrape", !.name = n] :
        n \in {Ketchup, ketchup}}
    \cup {[Idle EXCEPT !.pc = "select", !.method = "vision", !.name = n,
                       !.category = "sauce"] : n \in {Ketchup, ketchup}}

ConcurrentBrands == {"Condito", "Paltsidis"}

\* Two processes each begin a call, for different brands.
StartCalls ==
    /\ ops < MaxOps
    /\ \A p \in Procs : calls[p].pc \in {"idle", "done"}
    /\ \E brand \in [Procs -> ConcurrentBrands] : \E c \in [Procs -> ReconcileCalls] :
        /\ brand[1] # brand[2]
        /\ calls' = [p \in Procs |-> [c[p] EXCEPT !.brand = brand[p]]]
        /\ ops' = ops + 1
        /\ last' = Last("reconcile", "", FALSE, FALSE, NoOutcomes, Nothing)
        /\ UNCHANGED <<products, scrape_log, today, screenshots>>

\* The call of process p runs its SELECT.
Select(p) ==
    /\ calls[p].pc = "select"
    /\ \E e \in select_existing(products, calls[p].method, calls[p].brand,
                                 calls[p].name) :
        calls' = [calls EXCEPT ![p].existing = e, ![p].pc = "write",
                               ![p].raced = \E o \in Procs \ {p} : calls[o].pc = "write"]
    /\ UNCHANGED <<products, scrape_log, today, ops, screenshots, last>>

\* The call of process p runs its UPDATE or INSERT, commits and returns.
Write(p) ==
    /\ calls[p].pc = "write"
    /\ LET r == write_row(products, calls[p], last.day)
       IN  /\ products' = r.products
           /\ calls' = [calls EXCEPT ![p].is_new = r.is_new, ![p].pc = "done"]
    /\ UNCHANGED <<scrape_log, today, ops, screenshots, last>>

\* Pairs of calls for different brands, their statements interleaved.
NextConcurrent ==
    \/ StartCalls
    \/ \E p \in Procs : Select(p)
    \/ \E p \in Procs : Write(p)

SpecConcurrent == Init /\ [][NextConcurrent]_vars

\* The look-back windows the dashboard's slider offers.
days_filter == 1..60

\* The dashboard's "New Products" tab: get_new_products(days_filter)
GetNewProducts ==
    /\ ops < MaxOps
    /\ \E since_days \in days_filter :
        /\ ops' = ops + 1
        /\ last' = Call("get_new_products", "", since_days,
                        get_new_products(products, since_days, today), Nothing)
        /\ UNCHANGED <<products, scrape_log, today, screenshots, calls>>

\* The store as the dashboard sees it: runs for one brand, the baseline reset,
\* the passing of time and the new-products query.
NextDashboard ==
    \/ ScrapeBrand("Condito", SingleOutcomes)
    \/ MarkAllAsBaseline
    \/ Tick
    \/ GetNewProducts

SpecDashboard == Init /\ [][NextDashboard]_vars

\* The brands a caller can ask for: the configured ones and one that is not.
RequestedBrands == Brands \cup {"Acme"}

UrlsOf(brand) == IF brand \in Brands THEN COMPETITORS[brand].urls ELSE <<>>

\* scrape_single
ScrapeSingle ==
    /\ ops < MaxOps
    /\ Len(scrape_log) < MaxLog
    /\ \E brand \in RequestedBrands :
        \E outs \in [1..Len(UrlsOf(brand)) -> AllOutcomes] :
          LET r == scrape_single(products, scrape_log, brand, outs, today)
          IN  /\ ops' = ops + 1
              /\ products' = r.products
              /\ scrape_log' = r.scrape_log
              /\ last' = [Last("scrape_single", brand, FALSE, FALSE, outs, r)
                             EXCEPT !.returned = r.returned,
                                    !.events = scrape_single_events(brand, outs)]
              /\ UNCHANGED <<today, screenshots, calls>>

\* run_single
RunSingle ==
    /\ ops < MaxOps
    /\ Len(scrape_log) < MaxLog
    /\ \E brand \in RequestedBrands :
        \E api_key \in BOOLEAN : \E skip_screenshot \in BOOLEAN :
          \E captured \in BOOLEAN : \E found \in AllAnalyses :
            \E r \in run_single(products, scrape_log, screenshots, brand, api_key,
                                 skip_screenshot, captured, found, today) :
              /\ ops' = ops + 1
              /\ products' = r.products
              /\ scrape_log' = r.scrape_log
              /\ screenshots' = r.screenshots
              /\ last' = [Last("run_single", brand, skip_screenshot, captured,
                               NoOutcomes, r)
                             EXCEPT !.returned = r.returned,
                                    !.events =
                                        run_single_events(brand, api_key,
                                                          skip_screenshot)]
              /\ UNCHANGED <<today, calls>>

\* Requests for one brand, by both strategies.
NextSingle == ScrapeSingle \/ RunSingle

SpecSingle == Init /\ [][NextSingle]_vars

\* Runs over all brands, by both strategies.
NextAll == ScrapeAll \/ RunAll

SpecAll == Init /\ [][NextAll]_vars

\* Runs of both strategies for every brand, one candidate a page.
NextRunBrand ==
    \/ \E brand \in Brands : ScrapeBrand(brand, AllOutcomes)
    \/ \E brand \in Brands : ProcessBrand(brand, AllAnalyses, BOOLEAN)

SpecRunBrand == Init /\ [][NextRunBrand]_vars

\* The markup orchestrator alone: every brand, pages of up to two candidates.
NextScrape == \E brand \in Brands : ScrapeBrand(brand, BareOutcomes)

SpecScrape == Init /\ [][NextScrape]_vars

\* Runs of both strategies alone, with lists of up to two candidates and a
\* fresh screenshot each time.
NextReconcile ==
    \/ \E brand \in LifecycleBrands : ScrapeBrand(brand, MixedOutcomes)
    \/ \E brand \in LifecycleBrands : ProcessBrand(brand, PairAnalyses, {FALSE})

SpecReconcile == Init /\ [][NextReconcile]_vars

----------------------------------------------------------------------------
(* What the claims speak of. *)

IsRun == last.op \in {"scrape_brand", "process_brand"}

Range(seq) == {seq[i] : i \in DOMAIN seq}

SameKey(r, q) == r.brand = q.brand /\ r.name = q.name

\* The rows of scrape_log the last operation appended.
Appended == SubSeq(scrape_log, Len(last.log_before) + 1, Len(scrape_log))

LogKept == SubSeq(scrape_log, 1, Len(last.log_before)) = last.log_before

LastUrls == IF last.brand \in Brands THEN COMPETITORS[last.brand].urls ELSE <<>>

\* The URLs of the last run that failed: the fetch returned nothing or the
\* processing raised (markup); the one screenshot was not captured (vision).
FailedUrls ==
    IF last.op = "scrape_brand"
    THEN {i \in DOMAIN last.outs : last.outs[i].kind # "page"}
    ELSE IF last.op = "process_brand" /\ LastUrls # <<>>
              /\ ~last.skip_screenshot /\ ~last.captured
    THEN {1}
    ELSE {}

\* The URLs the last run attempts: all of them (markup), the first (vision).
AttemptedUrls ==
    IF last.op = "scrape_brand" THEN DOMAIN last.outs
    ELSE IF last.op = "process_brand" /\ LastUrls # <<>> THEN {1}
    ELSE {}

\* The per-URL extraction results of the last scrape_brand, concatenated in
\* URL order.
RECURSIVE ConcatFrom(_, _)
ConcatFrom(outs, i) ==
    IF i > Len(outs) THEN <<>>
    ELSE (IF outs[i].kind = "page" THEN outs[i].products ELSE <<>>)
         \o ConcatFrom(outs, i + 1)

Extracted == ConcatFrom(last.outs, 1)

\* seq without every element whose lower-cased name occurred earlier.
RECURSIVE FirstOccurrencesFrom(_, _)
FirstOccurrencesFrom(seq, i) ==
    IF i > Len(seq) THEN <<>>
    ELSE (IF \E j \in 1..(i - 1) : Lower(seq[j].name) = Lower(seq[i].name)
          THEN <<>> ELSE <<seq[i]>>)
         \o FirstOccurrencesFrom(seq, i + 1)

FirstOccurrences(seq) == FirstOccurrencesFrom(seq, 1)

\* The last run reconciled the list the run before it reconciled, for the same
\* brand and by the same strategy.
Repeated ==
    /\ last.reconciled /\ last.prev.reconciled
    /\ last.op = last.prev.op
    /\ last.brand = last.prev.brand
    /\ last.handed = last.prev.handed

\* q is r with at most last_seen and the optional fields changed.
Refreshed(r, q) ==
    q = [r EXCEPT !.last_seen = q.last_seen, !.url = q.url,
                  !.image_url = q.image_url, !.category = q.category]

----------------------------------------------------------------------------
(* C1: reconciling the same candidate list for a brand a second time, right   *)
(* after the first, leaves the number of rows unchanged, changes at most      *)
(* last_seen and the optional fields of a row, first_seen never, and counts   *)
(* no new product.                                                            *)
C1_ReconcileIdempotent ==
    Repeated =>
        /\ Cardinality(products) = Cardinality(last.before)
        /\ \A r \in last.before :
              \E q \in products : Refreshed(r, q) /\ q.first_seen = r.first_seen
        /\ last.new = 0

\* A list of two candidates is reconciled a second time.
C1_Witness ==
    /\ Repeated
    /\ Len(last.handed) = 2
    /\ Cardinality(last.before) = 2
    /\ Len(scrape_log) = 2
    /\ scrape_log[1].new_products = 2

(* C2: no two rows of one brand have names equal ignoring case.               *)
C2_CaseInsensitiveIdentity ==
    \A r, q \in products :
        (r.brand = q.brand /\ Lower(r.name) = Lower(q.name)) => r.name = q.name

(* C3: first_seen <= last_seen in every row, after any sequence of runs,      *)
(* baseline resets and mark-as-seen operations.                               *)
C3_FirstSeenBeforeLastSeen == \A r \in products : r.first_seen <= r.last_seen

\* The values the candidates of the last run supply for a field.
Supplied(field) ==
    {c[field] : c \in {x \in Range(last.handed) : field \in DOMAIN x}}
    \ {Null, Missing}

\* A stored value is kept unless a candidate of the last run supplies one.
Kept(field, r, q) ==
    r[field] # Null => q[field] \in {r[field]} \cup Supplied(field)

(* C4: a run leaves a stored url, image_url and category of an existing row   *)
(* as it was unless a candidate of the run supplies a value for the field: a  *)
(* null or missing value never replaces a stored one.                         *)
C4_CoalesceOnWrite ==
    IsRun =>
        \A r \in last.before :
            \E q \in products :
                /\ SameKey(r, q)
                /\ Kept("url", r, q)
                /\ Kept("image_url", r, q)
                /\ Kept("category", r, q)

(* C5: every call of scrape_brand or process_brand appends exactly one row to *)
(* scrape_log, for its brand, whatever the outcome.                           *)
C5_OneEventPerRun ==
    IsRun =>
        /\ LogKept
        /\ Len(Appended) = 1
        /\ Appended[1].brand = last.brand

(* C6: the status a run writes for a brand with a URL is success exactly when *)
(* no URL failed, partial exactly when some but not all failed, error when    *)
(* all failed; skipped is written only for a brand without URLs.              *)
C6_StatusByFailures ==
    (IsRun /\ Len(Appended) = 1) =>
        LET e == Appended[1]
            failed == Cardinality(FailedUrls)
            all == Cardinality(AttemptedUrls)
        IN  /\ LastUrls = <<>> <=> e.status = "skipped"
            /\ LastUrls # <<>> =>
                  /\ e.status = "success" <=> failed = 0
                  /\ e.status = "partial" <=> (0 < failed /\ failed < all)
                  /\ e.status = "error" <=> failed = all

(* C7: the list scrape_brand hands to the add_product loop is the             *)
(* concatenation of the per-URL results, in URL order, without every          *)
(* candidate whose lower-cased name occurred earlier.                         *)
C7_CrossUrlDedup ==
    (last.op = "scrape_brand" /\ last.reconciled) =>
        last.handed = FirstOccurrences(Extracted)

\* Two URLs yield [a], [a, b]: [a, b] is reconciled.
C7_Witness ==
    /\ last.op = "scrape_brand" /\ last.reconciled
    /\ Len(last.outs) = 2
    /\ Len(Extracted) = 3
    /\ Extracted[1] = Extracted[2]
    /\ last.handed = <<Extracted[1], Extracted[3]>>
    /\ Lower(Extracted[3].name) # Lower(Extracted[1].name)

\* The tokens of an error text.
Tokens(error) == IF error = NoText THEN {} ELSE Range(error[1])

Notes(error) ==
    IF error = NoText \/ error = Text(<<>>) THEN 0
    ELSE 1 + Cardinality({i \in DOMAIN error[1] : error[1][i] = "; "})

(* C8: when some but not all URLs of a brand fail, scrape_brand writes status *)
(* partial, an error text of one note per failed URL that names no URL that   *)
(* succeeded, and products_found = the number of distinct lower-cased names   *)
(* extracted from the URLs that succeeded.                                    *)
C8_PartialFailure ==
    (last.op = "scrape_brand" /\ FailedUrls # {} /\ FailedUrls # DOMAIN last.outs) =>
        /\ Len(Appended) = 1
        /\ LET e == Appended[1]
           IN  /\ e.status = "partial"
               /\ e.error # NoText /\ Tokens(e.error) # {}
               /\ Notes(e.error) = Cardinality(FailedUrls)
               /\ \A i \in DOMAIN last.outs :
                     /\ i \notin FailedUrls => LastUrls[i] \notin Tokens(e.error)
                     /\ last.outs[i].kind = "none" => LastUrls[i] \in Tokens(e.error)
               /\ e.products_found =
                     Cardinality({Lower(c.name) : c \in Range(Extracted)})

C8_Witness ==
    /\ last.op = "scrape_brand"
    /\ FailedUrls # {} /\ FailedUrls # DOMAIN last.outs
    /\ Len(Appended) = 1
    /\ Appended[1].products_found = 2

(* C9: a run for a brand without URLs, by either strategy, changes no row of  *)
(* products and appends one row to scrape_log: status skipped, both counts 0, *)
(* error text = the brand's declared status.                                  *)
C9_NoUrlSkipped ==
    (IsRun /\ LastUrls = <<>>) =>
        /\ products = last.before
        /\ ~last.reconciled
        /\ LogKept
        /\ Len(Appended) = 1
        /\ Appended[1] =
              [brand |-> last.brand, scrape_date |-> last.day, products_found |-> 0,
               new_products |-> 0, status |-> "skipped",
               error |-> Text(<<COMPETITORS[last.brand].status>>),
               method |-> Appended[1].method]

(* C10: a row is created with first_seen = last_seen = the day of the run,    *)
(* and no later operation changes its first_seen, except the baseline reset,  *)
(* which gives every row the same first_seen.                                 *)
C10_FirstSeenWrittenOnce ==
    /\ \A q \in products :
          (\A r \in last.before : ~SameKey(r, q)) =>
              (q.first_seen = last.day /\ q.last_seen = last.day)
    /\ last.op # "mark_all_as_baseline" =>
          \A r \in last.before :
              \E q \in products : SameKey(r, q) /\ q.first_seen = r.first_seen
    /\ last.op = "mark_all_as_baseline" =>
          /\ \A r \in last.before : \E q \in products : SameKey(r, q)
          /\ \A q, r \in products : q.first_seen = r.first_seen

\* A product is sighted again on a later day than it was first seen.
C10_Witness ==
    /\ last.reconciled
    /\ \E r \in last.before :
          /\ r.brand = last.brand
          /\ r.first_seen < last.day
          /\ \E q \in products :
                SameKey(r, q) /\ q.last_seen = last.day /\ r.last_seen < last.day

\* The last run sighted the product of row r: it reconciled a candidate of r's
\* brand whose name is r's name, ignoring case.
Sighted(r) ==
    /\ last.reconciled
    /\ r.brand = last.brand
    /\ \E c \in Range(last.handed) : c.name # Blank /\ Lower(c.name) = Lower(r.name)

(* C11: no operation decreases the last_seen of a row; a run sets the         *)
(* last_seen of every product it sights to the day of the run; a product      *)
(* created the day before and sighted again has last_seen = the day of the    *)
(* run and its first_seen unchanged.                                          *)
C11_LastSeenOnSighting ==
    /\ \A r \in last.before :
          \E q \in products : SameKey(r, q) /\ r.last_seen <= q.last_seen
    /\ \A q \in products : Sighted(q) => q.last_seen = last.day
    /\ \A r \in last.before :
          (Sighted(r) /\ r.first_seen = last.day - 1) =>
              \E q \in products :
                  /\ SameKey(r, q)
                  /\ q.last_seen = last.day
                  /\ q.first_seen = r.first_seen

(* C12: no operation deletes a row of products or changes its brand or name:  *)
(* every (brand, name) in the table before an operation is in it after,       *)
(* also when a run no longer finds the product on the brand's pages.          *)
C12_KeysOnlyGrow ==
    \A r \in last.before : \E q \in products : SameKey(r, q)

\* A run reconciles candidates for a brand and finds one of its products no more.
C12_Witness ==
    /\ last.reconciled
    /\ \E r \in last.before :
          /\ r.brand = last.brand
          /\ ~Sighted(r)
          /\ \E q \in products : SameKey(r, q)
    /\ Cardinality(products) > Cardinality(last.before)

(* C13: every operation leaves the rows of scrape_log as they were and        *)
(* appends at most one row.                                                   *)
C13_LedgerAppendOnly ==
    /\ LogKept
    /\ Len(scrape_log) <= Len(last.log_before) + 1

\* A run appends a second row that differs from the first.
C13_Witness ==
    /\ IsRun
    /\ Len(last.log_before) = 1
    /\ Len(scrape_log) = 2
    /\ scrape_log[1] = last.log_before[1]
    /\ scrape_log[2].status # scrape_log[1].status

\* The brands of the rows the last operation appended, in order.
AppendedBrands == [i \in 1..Len(Appended) |-> Appended[i].brand]

(* C14: a run over all brands (scrape_all, run_all) leaves the rows of        *)
(* scrape_log as they were and appends one row for every configured brand, in *)
(* configured order, whatever fails for any of the brands.                    *)
C14_RunAllRecordsEveryBrand ==
    last.op \in {"scrape_all", "run_all"} =>
        /\ LogKept
        /\ AppendedBrands = BrandOrder

\* The last operation is a request for a brand that is not configured.
UnknownRequested ==
    last.op \in {"scrape_single", "run_single"} /\ last.brand \notin Brands

\* The operation before the last was the same request for a configured brand
\* and found no product.
AfterEmptyKnown ==
    /\ last.prev.op = last.op
    /\ last.prev.brand \in Brands
    /\ last.prev.total = 0

(* C15: a request for a brand that is not configured changes neither products *)
(* nor scrape_log, and what it returns differs from what the same request     *)
(* returns for a configured brand that yields no product.                     *)
C15_UnknownBrandNamedError ==
    UnknownRequested =>
        /\ products = last.before
        /\ scrape_log = last.log_before
        /\ AfterEmptyKnown => last.returned # last.prev.returned

(* C16: the new-products query that follows a baseline reset returns no row,  *)
(* whichever of the look-back windows the dashboard offers is asked for.      *)
C16_BaselineHidesExisting ==
    (last.op = "get_new_products" /\ last.prev.op = "mark_all_as_baseline") =>
        last.returned = {}

\* What the two calls in flight give when one runs alone after the other, on
\* the store prods: the table and the two return values, for either order.
Sequential(prods, day) ==
    {[products |-> r2.products, is_new |-> <<r1.is_new, r2.is_new>>] :
        r1 \in reconcile(prods, calls[1], day),
        r2 \in UNION {reconcile(x.products, calls[2], day) :
                         x \in reconcile(prods, calls[1], day)}}
    \cup
    {[products |-> r1.products, is_new |-> <<r1.is_new, r2.is_new>>] :
        r2 \in reconcile(prods, calls[2], day),
        r1 \in UNION {reconcile(x.products, calls[1], day) :
                         x \in reconcile(prods, calls[2], day)}}

BothDone == \A p \in Procs : calls[p].pc = "done"

(* C17: when two reconcile calls for different brands have run with their     *)
(* SELECTs and writes interleaved in any way, the table and the two return    *)
(* values are those of the two calls run one after the other, in some order.  *)
C17_DifferentBrandsSerializable ==
    BothDone =>
        [products |-> products, is_new |-> <<calls[1].is_new, calls[2].is_new>>]
            \in Sequential(last.before, last.day)

\* Both calls fetched before either wrote; one inserted, one updated a row.
C17_Witness ==
    /\ BothDone
    /\ \E p \in Procs : calls[p].raced
    /\ calls[1].is_new # calls[2].is_new
    /\ calls[1].name = calls[2].name

\* The last run is a complete run of the brand and the list whose run was
\* terminated just before, on the same day.
Resumed ==
    /\ last.op = "scrape_brand"
    /\ last.prev.op = "terminated"
    /\ last.prev.brand = last.brand
    /\ last.prev.handed = last.handed

\* The table a run of the same pages gives on the store the terminated run
\* started from.
Uninterrupted ==
    scrape_brand(last.prev.started, <<>>, last.brand, COMPETITORS[last.brand],
                 last.outs, last.day).products

(* C18: when a run of scrape_brand is terminated between two calls of         *)
(* add_product, or before log_scrape, and run again to the end on the same    *)
(* day with the same pages, every row of products and scrape_log written      *)
(* before is kept and the table is the one an uninterrupted run gives.        *)
C18_ResumeSafe ==
    Resumed =>
        /\ \A r \in last.before : \E q \in products : SameKey(r, q)
        /\ LogKept
        /\ products = Uninterrupted

\* A run is terminated after the first of two inserts, next to a row it
\* updated before, and run again.
C18_Witness ==
    /\ Resumed
    /\ Len(last.handed) = 2
    /\ last.prev.started # {}
    /\ Cardinality(last.before) = Cardinality(last.prev.started) + 1
    /\ Cardinality(products) = Cardinality(last.before) + 1

\* The positions of text where a well-formed JSON array begins.
ArrayStarts(text) ==
    {i \in DOMAIN text : text[i] = "[" /\ after_value(text, i) # 0}

\* The elements of the first well-formed JSON array in text; none when there
\* is no such array.
FirstArray(text) ==
    IF ArrayStarts(text) = {} THEN <<>>
    ELSE LET i == CHOOSE k \in ArrayStarts(text) : \A m \in ArrayStarts(text) : k <= m
         IN  elements(text, i + 1)

(* C19: analyze_screenshot returns the elements of the first well-formed JSON *)
(* array in the response text, whatever prose surrounds it, brackets in the   *)
(* prose included, and the empty list when the text holds no such array.      *)
C19_FirstArrayExtracted ==
    last.op = "analyze_screenshot" => last.returned = FirstArray(last.arg)

\* How many characters of text are upper-case letters.
UpperCount(text) == Cardinality({i \in DOMAIN text : text[i] \in UpperChars})

(* C20: a name is_valid_product_name accepts has from 4 to 100 characters, is *)
(* not a SKIP_WORDS term ignoring case, does not begin with such a term and a  *)
(* space, and has at most 7 upper-case letters in 10 when it is longer than 5  *)
(* characters; "Home", "EN", "→ Read more" and every name of 6 upper-case      *)
(* letters are rejected, "Heinz Tomato Ketchup 500ml" is accepted.             *)
C20_ValidNames ==
    last.op = "is_valid_product_name" =>
        LET name == last.arg
        IN  /\ last.returned \in BOOLEAN
            /\ last.returned =>
                  /\ Len(name) >= 4 /\ Len(name) <= 100
                  /\ \A skip \in SKIP_WORDS :
                        /\ Lower(name) # skip
                        /\ ~startswith(Lower(name), skip \o <<" ">>)
                  /\ Len(name) > 5 => 10 * UpperCount(name) <= 7 * Len(name)
            /\ name \in {Home, EN, ReadMore} => ~last.returned
            /\ (Len(name) = 6 /\ UpperCount(name) = 6) => ~last.returned
            /\ name = HeinzTomatoKetchup => last.returned

\* A name of 100 characters, 70 of them upper-case letters, is accepted.
C20_Witness ==
    /\ last.op = "is_valid_product_name"
    /\ last.returned = TRUE
    /\ Len(last.arg) = 100
    /\ UpperCount(last.arg) = 70

(* C21: the text clean_text returns has no two whitespace characters in a     *)
(* row, no whitespace and no dash or colon at its start or its end, and       *)
(* clean_text leaves it as it is.                                             *)
C21_CleanTextNormal ==
    last.op = "clean_text" =>
        LET r == last.returned
        IN  /\ \A i \in 1..(Len(r) - 1) :
                  ~(r[i] \in Whitespace /\ r[i + 1] \in Whitespace)
            /\ r # <<>> =>
                  /\ r[1] \notin Whitespace \cup Dashes
                  /\ r[Len(r)] \notin Whitespace \cup Dashes
            /\ clean_text(r) = r

\* The containers among the first 100 that have a valid name no container
\* before them has, ignoring case.
Contributing(matched) ==
    LET n == IF Len(matched) < CONTAINER_LIMIT THEN Len(matched)
             ELSE CONTAINER_LIMIT
        names == [i \in 1..n |-> name_of(matched[i])]
    IN  {i \in 1..n :
            /\ is_valid_product_name(names[i])
            /\ \A j \in 1..(i - 1) : Lower(names[j]) # Lower(names[i])}

(* C22: the list extract_products returns holds, in the containers' order,   *)
(* one candidate for each of the first 100 containers that has a valid name   *)
(* not accepted before, ignoring case, and nothing else: every name is valid  *)
(* and no two names are equal ignoring case.                                  *)
C22_ExtractedNames ==
    (last.op = "extract_products" /\ last.arg.product_sel # "") =>
        LET matched == last.arg.elements
            r == last.returned
            from == Contributing(matched)
        IN  /\ Len(r) = Cardinality(from)
            /\ \A i \in from :
                  r[Cardinality({j \in from : j <= i})].name = name_of(matched[i])
            /\ \A i \in DOMAIN r : is_valid_product_name(r[i].name)
            /\ \A i, j \in DOMAIN r :
                  Lower(r[i].name) = Lower(r[j].name) => i = j

C22_Witness ==
    /\ last.op = "extract_products"
    /\ last.arg.product_sel # ""
    /\ Len(last.arg.elements) > CONTAINER_LIMIT
    /\ last.returned # <<>>
    /\ LET beyond == name_of(last.arg.elements[CONTAINER_LIMIT + 1])
       IN  /\ is_valid_product_name(beyond)
           /\ \A i \in DOMAIN last.returned :
                 Lower(last.returned[i].name) # Lower(beyond)

\* The URLs the last operation requested or took a screenshot of, in order.
IsAttempt(e) == e.do \in {"get", "capture"}

Attempts ==
    LET made == SelectSeq(last.events, IsAttempt)
    IN  [i \in DOMAIN made |-> made[i].url]

(* C23: a run for a brand with URLs, by either strategy (the vision strategy  *)
(* taking its screenshots), attempts every configured URL once, in the        *)
(* configured order, whatever the outcome of the URLs before it.              *)
C23_EveryUrlAttempted ==
    (IsRun /\ LastUrls # <<>> /\ ~last.skip_screenshot) => Attempts = LastUrls

(* C24: between two requests a run makes for URLs of one brand there is a     *)
(* pause of REQUEST_DELAY, whatever the first request came to; and between    *)
(* the calls for two brands in a run over all brands there is a pause.        *)
C24_PausesBetweenRequests ==
    LET e == last.events
    IN  /\ \A i, j \in DOMAIN e :
              (i < j /\ e[i].do = "get" /\ e[j].do = "get" /\ e[i].brand = e[j].brand)
                  => \E k \in (i + 1)..(j - 1) :
                        e[k].do = "sleep" /\ e[k].seconds = REQUEST_DELAY
        /\ \A i, j \in DOMAIN e :
              (i < j /\ e[i].do \in {"scrape_brand", "process_brand"}
                     /\ e[j].do \in {"scrape_brand", "process_brand"})
                  => \E k \in (i + 1)..(j - 1) : e[k].do = "sleep"

\* The names of the list handed to the reconcile loop that are not empty,
\* ignoring case.
HandedNames ==
    {Lower(last.handed[i].name) :
        i \in {k \in DOMAIN last.handed : last.handed[k].name # Blank}}

(* C25: the list a run reconciles holds no two candidates with the same name  *)
(* ignoring case, and the products_found of the row the run logs, like the    *)
(* total it returns, is the number of distinct non-empty names of that list.  *)
C25_DistinctCounted ==
    (IsRun /\ last.reconciled) =>
        /\ \A i, j \in DOMAIN last.handed :
              (/\ last.handed[i].name # Blank
               /\ last.handed[j].name # Blank
               /\ Lower(last.handed[i].name) = Lower(last.handed[j].name)) => i = j
        /\ last.total = Cardinality(HandedNames)
        /\ \A i \in DOMAIN Appended :
              Appended[i].products_found = Cardinality(HandedNames)

\* The sum of new_products over the rows of a log.
RECURSIVE SumNew(_)
SumNew(log) == IF log = <<>> THEN 0 ELSE Head(log).new_products + SumNew(Tail(log))

(* C26: after any sequence of completed runs from the empty store, the        *)
(* new_products of all rows of scrape_log add up to the number of rows of     *)
(* products; in every row 0 <= new_products <= products_found, and both are   *)
(* 0 when the status is skipped or error.                                     *)
C26_LedgerMatchesCatalog ==
    /\ SumNew(scrape_log) = Cardinality(products)
    /\ \A i \in DOMAIN scrape_log :
          /\ 0 <= scrape_log[i].new_products
          /\ scrape_log[i].new_products <= scrape_log[i].products_found
          /\ scrape_log[i].status \in {"skipped", "error"} =>
                (scrape_log[i].products_found = 0 /\ scrape_log[i].new_products = 0)

C26_Witness ==
    /\ Len(scrape_log) = 2
    /\ scrape_log[1].method = "scrape"
    /\ scrape_log[1].new_products >= 1
    /\ scrape_log[2].method = "vision"
    /\ scrape_log[2].new_products >= 1
    /\ scrape_log[2].products_found > scrape_log[2].new_products
    /\ Cardinality(products) >= 2

(* C27: a row is created with is_new true; mark_products_as_seen sets is_new  *)
(* false in every row and changes nothing else; no other operation changes    *)
(* the is_new of a row, so a run that sights a row again or a baseline reset  *)
(* never sets it back to true; and mark_all_as_baseline changes no field      *)
(* other than first_seen.                                                     *)
C27_IsNewClearedOnce ==
    /\ \A q \in products :
          (\A r \in last.before : ~SameKey(r, q)) => q.is_new
    /\ last.op = "mark_products_as_seen" =>
          products = {[r EXCEPT !.is_new = FALSE] : r \in last.before}
    /\ last.op # "mark_products_as_seen" =>
          \A r \in last.before :
              \E q \in products : SameKey(r, q) /\ q.is_new = r.is_new
    /\ last.op = "mark_all_as_baseline" =>
          /\ Cardinality(products) = Cardinality(last.before)
          /\ \A r \in last.before :
                \E q \in products : q = [r EXCEPT !.first_seen = q.first_seen]

\* A run sights, right after mark_products_as_seen, a row that was marked, under
\* the name it is stored with, and creates no row.
C27_Witness ==
    /\ last.reconciled
    /\ last.prev.op = "mark_products_as_seen"
    /\ Cardinality(products) = Cardinality(last.before)
    /\ \E r \in last.before :
          /\ ~r.is_new
          /\ r.brand = last.brand
          /\ \E c \in Range(last.handed) : c.name = r.name
          /\ \E q \in products : SameKey(r, q) /\ ~q.is_new
====
